---- MODULE Spec2Model ----
(***************************************************************************)
(* State-machine model of the UDP grid game: the server's receive/handle/  *)
(* broadcast loop (server/src/main.rs) and the client's send/receive loop  *)
(* (client/src/main.rs).                                                   *)
(*                                                                         *)
(* A datagram is the text it carries, a string; the parsing below works on *)
(* its characters.  A socket address is <<ip, port>>.  Instant-valued      *)
(* fields (last_seen) carry no behaviour in the code and are left out.     *)
(***************************************************************************)
EXTENDS Integers, Sequences, FiniteSets, TLC

VARIABLES
    clients,          \* GameServer.clients: port -> Client
    players,          \* GameServer.game_state.players: port -> PlayerState
    treasures,        \* GameServer.game_state.treasures: Vec<(u8, u8)>
    traps,            \* GameServer.game_state.traps: Vec<(u8, u8)>
    time_remaining,   \* GameServer.game_state.time_remaining
    pc,               \* position of the server in GameServer::run
    rx,               \* the datagram recv_from returned in this iteration
    acks,             \* datagrams handle_message sent in this iteration
    bcast,            \* datagrams broadcast_game_state sent in this iteration
    handled,          \* number of datagrams received so far
    ackLog,           \* history: command datagrams acknowledged so far
    before,           \* history: the server's state when handle_message began
    sequence_number,  \* GameClient.sequence_number
    acked_messages,   \* GameClient.acked_messages
    player_state,     \* GameClient.player_state
    c_players,        \* GameClient.players
    c_treasures,      \* GameClient.treasures
    c_traps,          \* GameClient.traps
    c_time_remaining, \* GameClient.time_remaining
    cpc,              \* position of the client in GameClient::run
    tx,               \* history: the packets the client's socket has sent
    send_result,      \* history: what the last send_message call returned
    response,         \* history: the datagram receive_updates read last
    peer_acked        \* history: a datagram beginning "ACK:" has arrived

serverVars == <<clients, players, treasures, traps, time_remaining>>
loopVars == <<pc, rx, acks, bcast, handled, ackLog, before>>
clientVars ==
    <<sequence_number, acked_messages, player_state, c_players, c_treasures,
      c_traps, c_time_remaining, cpc, tx, send_result, response, peer_acked>>
vars == <<serverVars, loopVars, clientVars>>

-----------------------------------------------------------------------------
(* Program constants *)

MAX_CLIENTS == 3
grid_width == 10
grid_height == 10
U8 == 256

(* Bounds of the model *)

MaxDatagrams == 4
MaxGameDatagrams == 12
MaxSends == 3
MaxFairDatagrams == 5

-----------------------------------------------------------------------------
(* Text helpers: the str methods the code calls *)

None == -1

Char(s, i) == SubSeq(s, i, i)

\* &s[from..]
From(s, from) == SubSeq(s, from + 1, Len(s))

\* str::starts_with
StartsWith(s, prefix) ==
    Len(s) >= Len(prefix) /\ SubSeq(s, 1, Len(prefix)) = prefix

\* str::contains
StrContains(s, sub) ==
    \E i \in 1..(Len(s) - Len(sub) + 1) : SubSeq(s, i, i + Len(sub) - 1) = sub

RECURSIVE FindFrom(_, _, _)
FindFrom(s, c, i) ==
    IF i > Len(s) THEN 0
    ELSE IF Char(s, i) = c THEN i
    ELSE FindFrom(s, c, i + 1)

\* str::find of a one-character pattern: its first position, 0 when absent
Find(s, c) == FindFrom(s, c, 1)

Digits == {"0", "1", "2", "3", "4", "5", "6", "7", "8", "9"}

DigitValue(c) == CHOOSE d \in 0..9 : ToString(d) = c

RECURSIVE DecimalValue(_)
DecimalValue(s) ==
    IF Len(s) = 0 THEN 0
    ELSE 10 * DecimalValue(SubSeq(s, 1, Len(s) - 1)) + DigitValue(Char(s, Len(s)))

\* FromStr for an unsigned integer type with maximum `max`: an optional '+',
\* then one or more digits, and no overflow.  A numeral of more than 9 digits
\* is taken to overflow (its value is outside the model's integers).
ParseUnsigned(s, max) ==
    LET body == IF StartsWith(s, "+") THEN From(s, 1) ELSE s IN
    IF Len(body) = 0 \/ Len(body) > 9 THEN None
    ELSE IF \E i \in 1..Len(body) : Char(body, i) \notin Digits THEN None
    ELSE IF DecimalValue(body) > max THEN None
    ELSE DecimalValue(body)

\* str::parse::<u32>; u32::MAX is above the model's integers
ParseU32(s) == ParseUnsigned(s, 999999999)

\* Vec::contains
Contains(vec, pos) == \E i \in 1..Len(vec) : vec[i] = pos

\* Vec::retain(|&p| p != pos)
RetainNot(vec, pos) ==
    LET keep(p) == p # pos IN SelectSeq(vec, keep)

\* SocketAddr::port
Port(addr) == addr[2]

\* HashMap::insert: the value of an existing key is replaced
Insert(map, key, value) ==
    [k \in DOMAIN map \cup {key} |-> IF k = key THEN value ELSE map[k]]

EmptyMap == [k \in {} |-> 0]

-----------------------------------------------------------------------------
(* Server: GameServer *)

NoDatagram == [src |-> <<"", 0>>, msg |-> ""]

\* The part of the state a claim compares across one handle_message call
World == [clients |-> clients, players |-> players, treasures |-> treasures,
          traps |-> traps, time_remaining |-> time_remaining, ackLog |-> ackLog]

NoWorld == [clients |-> EmptyMap, players |-> EmptyMap, treasures |-> <<>>,
            traps |-> <<>>, time_remaining |-> 0, ackLog |-> {}]

\* GameServer::new
ServerInit ==
    /\ clients = EmptyMap
    /\ players = EmptyMap
    /\ treasures = << <<2, 3>>, <<5, 5>> >>
    /\ traps = << <<3, 3>>, <<6, 6>> >>
    /\ time_remaining = 60
    /\ pc = "recv"
    /\ rx = NoDatagram
    /\ acks = <<>>
    /\ bcast = {}
    /\ handled = 0
    /\ ackLog = {}
    /\ before = NoWorld

\* Mutant of HasCapacity: the off-by-one test `<=`
HasCapacity_OffByOne == Cardinality(DOMAIN clients) <= MAX_CLIENTS

\* handle_connect: `if self.clients.len() < MAX_CLIENTS`
HasCapacity == Cardinality(DOMAIN clients) < MAX_CLIENTS

\* handle_connect: the Client and the PlayerState inserted for a connect
NewClient(addr) == [last_sequence |-> 0, addr |-> addr]
NewPlayer == [x |-> 0, y |-> 0, score |-> 0]

\* Mutant of handle_connect: the PlayerState is inserted before the capacity
\* test
handle_connect_PlayerFirst(addr) ==
    /\ players' = Insert(players, Port(addr), NewPlayer)
    /\ IF HasCapacity
       THEN /\ clients' = Insert(clients, Port(addr), NewClient(addr))
            /\ acks' = Append(acks, [to |-> addr, data |-> "ACK:connect"])
            /\ UNCHANGED <<treasures, traps>>
       ELSE UNCHANGED <<clients, treasures, traps, acks>>

\* GameServer::handle_connect
handle_connect(addr) ==
    IF HasCapacity
    THEN /\ clients' = Insert(clients, Port(addr), NewClient(addr))
         /\ players' = Insert(players, Port(addr), NewPlayer)
         /\ acks' = Append(acks, [to |-> addr, data |-> "ACK:connect"])
         /\ UNCHANGED <<treasures, traps>>
    ELSE UNCHANGED <<clients, players, treasures, traps, acks>>

\* GameServer::parse_message: splitn(2, ':') and parse::<u32> of the head
parse_message(message) ==
    LET colon == Find(message, ":")
        sequence == ParseU32(SubSeq(message, 1, colon - 1))
    IN  IF colon # 0 /\ sequence # None
        THEN [some |-> TRUE, sequence |-> sequence, content |-> From(message, colon)]
        ELSE [some |-> FALSE, sequence |-> 0, content |-> ""]

\* Mutant of Moved: the edge tests are missing (u8 arithmetic wraps)
Moved_NoEdgeTest(player, direction) ==
    CASE direction = "W" -> [player EXCEPT !.y = (@ - 1) % U8]
      [] direction = "A" -> [player EXCEPT !.x = (@ - 1) % U8]
      [] direction = "S" -> [player EXCEPT !.y = (@ + 1) % U8]
      [] direction = "D" -> [player EXCEPT !.x = (@ + 1) % U8]
      [] OTHER -> player

\* Mutant of Moved: A and D exchanged
Moved_Mirrored(player, direction) ==
    CASE direction = "W" ->
           IF player.y > 0 THEN [player EXCEPT !.y = (@ - 1) % U8] ELSE player
      [] direction = "D" ->
           IF player.x > 0 THEN [player EXCEPT !.x = (@ - 1) % U8] ELSE player
      [] direction = "S" ->
           IF player.y < (grid_height - 1) % U8
           THEN [player EXCEPT !.y = (@ + 1) % U8] ELSE player
      [] direction = "A" ->
           IF player.x < (grid_width - 1) % U8
           THEN [player EXCEPT !.x = (@ + 1) % U8] ELSE player
      [] OTHER -> player

\* handle_message: the match on the direction, u8 arithmetic
Moved(player, direction) ==
    CASE direction = "W" ->
           IF player.y > 0 THEN [player EXCEPT !.y = (@ - 1) % U8] ELSE player
      [] direction = "A" ->
           IF player.x > 0 THEN [player EXCEPT !.x = (@ - 1) % U8] ELSE player
      [] direction = "S" ->
           IF player.y < (grid_height - 1) % U8
           THEN [player EXCEPT !.y = (@ + 1) % U8] ELSE player
      [] direction = "D" ->
           IF player.x < (grid_width - 1) % U8
           THEN [player EXCEPT !.x = (@ + 1) % U8] ELSE player
      [] OTHER -> player

\* handle_message: the treasure check on the player's cell
ScoreAfterTreasure(player, tr) ==
    IF Contains(tr, <<player.x, player.y>>) THEN player.score + 10 ELSE player.score

\* Mutant of TreasuresAfter: the `retain` is missing
TreasuresAfter_Kept(player, tr) == tr

\* handle_message: `treasures.retain(|&pos| pos != (player.x, player.y))`
TreasuresAfter(player, tr) ==
    IF Contains(tr, <<player.x, player.y>>)
    THEN RetainNot(tr, <<player.x, player.y>>) ELSE tr

\* Mutant of ScoreAfterTrap: the trap takes 10 points instead of all
ScoreAfterTrap_Penalty(player, tp) ==
    IF Contains(tp, <<player.x, player.y>>) THEN player.score - 10 ELSE player.score

\* handle_message: the trap check on the player's cell
ScoreAfterTrap(player, tp) ==
    IF Contains(tp, <<player.x, player.y>>) THEN 0 ELSE player.score

\* Mutant of TrapsAfter: the `retain` is missing
TrapsAfter_Kept(player, tp) == tp

\* handle_message: `traps.retain(|&pos| pos != (player.x, player.y))`
TrapsAfter(player, tp) ==
    IF Contains(tp, <<player.x, player.y>>)
    THEN RetainNot(tp, <<player.x, player.y>>) ELSE tp

\* Mutant of MoveCommand: the treasure and trap checks look at the cell the
\* player moved from
MoveCommand_CheckedBeforeMove(port, direction) ==
    LET p0 == players[port]
        p1 == Moved(p0, direction)
        p2 == [p1 EXCEPT !.score = ScoreAfterTreasure(p0, treasures)]
        p3 == [p2 EXCEPT !.score = ScoreAfterTrap([p0 EXCEPT !.score = p2.score], traps)]
    IN  /\ players' = [players EXCEPT ![port] = p3]
        /\ treasures' = TreasuresAfter(p0, treasures)
        /\ traps' = TrapsAfter(p0, traps)

\* handle_message: the body of `if let Some(player) = players.get_mut(&port)`
MoveCommand(port, direction) ==
    LET p1 == Moved(players[port], direction)
        p2 == [p1 EXCEPT !.score = ScoreAfterTreasure(p1, treasures)]
        p3 == [p2 EXCEPT !.score = ScoreAfterTrap(p2, traps)]
    IN  /\ players' = [players EXCEPT ![port] = p3]
        /\ treasures' = TreasuresAfter(p1, treasures)
        /\ traps' = TrapsAfter(p2, traps)

\* GameServer::handle_message
handle_message(message, addr) ==
    IF StrContains(message, ":connect")
    THEN handle_connect(addr)
    ELSE LET parsed == parse_message(message) IN
         IF parsed.some
         THEN /\ acks' = Append(acks, [to |-> addr,
                                       data |-> "ACK:" \o ToString(parsed.sequence)])
              /\ IF StartsWith(parsed.content, "MOVE:") /\ Port(addr) \in DOMAIN players
                 THEN /\ MoveCommand(Port(addr), From(parsed.content, 5))
                      /\ UNCHANGED clients
                 ELSE UNCHANGED <<clients, players, treasures, traps>>
         ELSE UNCHANGED <<clients, players, treasures, traps, acks>>

\* broadcast_game_state: the arguments of the snapshot's format!
Snapshot ==
    [time_remaining |-> time_remaining, players |-> players,
     treasures |-> treasures, traps |-> traps]

\* run: `let (size, src) = self.socket.recv_from(&mut self.buffer)`
recv_from(Inputs, Max) ==
    /\ pc = "recv"
    /\ handled < Max
    /\ \E d \in Inputs : rx' = d
    /\ handled' = handled + 1
    /\ pc' = "handle"
    /\ UNCHANGED <<serverVars, acks, bcast, ackLog, before, clientVars>>

\* A sequenced command was acknowledged in this step
AckedNow == Len(acks') > Len(acks) /\ acks'[Len(acks')].data # "ACK:connect"

\* run: `self.handle_message(&message, src)`; at most logCap acknowledged
\* datagrams are remembered in the history
Dispatch(logCap) ==
    /\ pc = "handle"
    /\ handle_message(rx.msg, rx.src)
    /\ ackLog' = IF AckedNow /\ Cardinality(ackLog) < logCap
                 THEN ackLog \cup {rx} ELSE ackLog
    /\ before' = World
    /\ pc' = "broadcast"
    /\ UNCHANGED <<time_remaining, rx, bcast, handled, clientVars>>

\* Mutant of broadcast_game_state: nothing is sent unless the datagram was
\* acknowledged
broadcast_game_state_OnlyAcked ==
    /\ pc = "broadcast"
    /\ bcast' = IF acks # <<>>
                THEN {[to |-> clients[p].addr, data |-> Snapshot] : p \in DOMAIN clients}
                ELSE {}
    /\ pc' = "loop"
    /\ UNCHANGED <<serverVars, rx, acks, handled, ackLog, before, clientVars>>

\* GameServer::broadcast_game_state, called from run
broadcast_game_state ==
    /\ pc = "broadcast"
    /\ bcast' = {[to |-> clients[p].addr, data |-> Snapshot] : p \in DOMAIN clients}
    /\ pc' = "loop"
    /\ UNCHANGED <<serverVars, rx, acks, handled, ackLog, before, clientVars>>

\* run: the back edge of `loop`; the buffer and the sent datagrams are gone
LoopAgain ==
    /\ pc = "loop"
    /\ pc' = "recv"
    /\ rx' = NoDatagram
    /\ acks' = <<>>
    /\ bcast' = {}
    /\ before' = NoWorld
    /\ UNCHANGED <<serverVars, handled, ackLog, clientVars>>

-----------------------------------------------------------------------------
(* The snapshot text: broadcast_game_state's format!, and more str methods *)

RECURSIVE Join(_, _)
\* [String]::join
Join(strs, sep) ==
    IF Len(strs) = 0 THEN ""
    ELSE IF Len(strs) = 1 THEN strs[1]
    ELSE strs[1] \o sep \o Join(Tail(strs), sep)

\* format!("P{}:({}, {}, {})", id, player.x, player.y, player.score)
FormatPlayer(id, player) ==
    "P" \o ToString(id) \o ":(" \o ToString(player.x) \o ", "
        \o ToString(player.y) \o ", " \o ToString(player.score) \o ")"

\* format!("({}, {})", x, y)
FormatCell(cell) == "(" \o ToString(cell[1]) \o ", " \o ToString(cell[2]) \o ")"

\* broadcast_game_state: the text of snapshot snap when the players map is
\* iterated in the order `order` (a sequence of its keys)
game_state_text(snap, order) ==
    "GAME_STATE|TIME:" \o ToString(snap.time_remaining)
        \o "|" \o Join([i \in 1..Len(order) |->
                           FormatPlayer(order[i], snap.players[order[i]])], "|")
        \o "|TREASURES:" \o Join([i \in 1..Len(snap.treasures) |->
                                     FormatCell(snap.treasures[i])], ",")
        \o "|TRAPS:" \o Join([i \in 1..Len(snap.traps) |->
                                 FormatCell(snap.traps[i])], ",")

RECURSIVE Split(_, _)
\* str::split on a one-character pattern
Split(s, c) ==
    LET i == Find(s, c) IN
    IF i = 0 THEN <<s>>
    ELSE <<SubSeq(s, 1, i - 1)>> \o Split(From(s, i), c)

RECURSIVE TrimStart(_)
TrimStart(s) == IF StartsWith(s, " ") THEN TrimStart(From(s, 1)) ELSE s

RECURSIVE TrimEnd(_)
TrimEnd(s) ==
    IF Len(s) > 0 /\ Char(s, Len(s)) = " "
    THEN TrimEnd(SubSeq(s, 1, Len(s) - 1)) ELSE s

\* str::trim
Trim(s) == TrimEnd(TrimStart(s))

\* str::parse::<i32>: an optional sign, then digits
ParseI32(s) ==
    IF StartsWith(s, "-")
    THEN IF ParseUnsigned(From(s, 1), 999999999) = None \/ StartsWith(From(s, 1), "+")
         THEN None
         ELSE 0 - ParseUnsigned(From(s, 1), 999999999)
    ELSE ParseUnsigned(s, 999999999)

\* Result::unwrap_or(0) of a parse
OrZero(parsed) == IF parsed = None THEN 0 ELSE parsed

\* &s[1..s.len() - 1] panics unless s has at least two characters
CanStrip(s) == Len(s) >= 2
Strip(s) == SubSeq(s, 2, Len(s) - 1)

-----------------------------------------------------------------------------
(* Client: GameClient, bound to 127.0.0.1:8081 (player number 1) *)

LocalPort == 8081

\* GameClient::new
ClientInit ==
    /\ sequence_number = 0
    /\ acked_messages = {}
    /\ player_state = [x |-> 0, y |-> 0, score |-> 0]
    /\ c_players = EmptyMap
    /\ c_treasures = <<>>
    /\ c_traps = <<>>
    /\ c_time_remaining = 60
    /\ cpc = "connect"
    /\ tx = <<>>
    /\ send_result = "none"
    /\ response = ""
    /\ peer_acked = FALSE

\* GameClient::send_message; sent tells whether send_to succeeded
send_message(message, sent) ==
    /\ sequence_number' = sequence_number + 1
    /\ tx' = IF sent
             THEN Append(tx, ToString(sequence_number + 1) \o ":" \o message)
             ELSE tx
    /\ send_result' = IF sent THEN "Ok" ELSE "Err"

\* parse_game_state: the player segment parts[2]
PlayerSegmentPanics(segment) ==
    LET player_data == Split(From(segment, 1), ":") IN
    /\ StartsWith(segment, "P")
    /\ Len(player_data) >= 2
    /\ ~CanStrip(player_data[2])

ParsedPlayers(segment) ==
    LET player_data == Split(From(segment, 1), ":")
        coords == Split(Strip(player_data[2]), ",")
    IN  IF StartsWith(segment, "P") /\ Len(player_data) >= 2 /\ Len(coords) = 3
        THEN Insert(EmptyMap, OrZero(ParseUnsigned(player_data[1], 65535)),
                    [x |-> OrZero(ParseUnsigned(Trim(coords[1]), 255)),
                     y |-> OrZero(ParseUnsigned(Trim(coords[2]), 255)),
                     score |-> OrZero(ParseI32(Trim(coords[3])))])
        ELSE EmptyMap

\* parse_game_state: a treasure or trap segment, split(',') then filter_map
CellSegmentPanics(segment) ==
    LET ts == Split(segment, ",") IN
    \E i \in 1..Len(ts) : ~CanStrip(ts[i])

ParsedCells(segment) ==
    LET cell(t) == LET coords == Split(Strip(t), ",") IN
                   <<OrZero(ParseUnsigned(Trim(coords[1]), 255)),
                     OrZero(ParseUnsigned(Trim(coords[2]), 255))>>
        kept(t) == Len(Split(Strip(t), ",")) = 2
        ts == SelectSeq(Split(segment, ","), kept)
    IN  [i \in 1..Len(ts) |-> cell(ts[i])]

\* parse_game_state reaches a panic: a slice out of range or parts[4] missing
ParsePanics(state) ==
    LET parts == Split(state, "|") IN
    /\ Len(parts) >= 4
    /\ \/ PlayerSegmentPanics(parts[3])
       \/ CellSegmentPanics(parts[4])
       \/ Len(parts) = 4
       \/ CellSegmentPanics(parts[5])

\* parse_game_state: the time field, parts[1].split(':').nth(1).unwrap_or("0")
ParsedTime(segment) ==
    LET fields == Split(segment, ":") IN
    ParseU32(IF Len(fields) >= 2 THEN fields[2] ELSE "0")

\* GameClient::parse_game_state, for a text on which it does not panic
parse_game_state(state) ==
    LET parts == Split(state, "|") IN
    IF Len(parts) < 4
    THEN UNCHANGED <<c_time_remaining, c_players, player_state, c_treasures, c_traps>>
    ELSE /\ c_time_remaining' = LET time == ParsedTime(parts[2]) IN
                                IF time # None THEN time ELSE c_time_remaining
         /\ c_players' = ParsedPlayers(parts[3])
         /\ player_state' = IF LocalPort \in DOMAIN c_players'
                            THEN c_players'[LocalPort]
                            ELSE player_state
         /\ c_treasures' = ParsedCells(parts[4])
         /\ c_traps' = ParsedCells(parts[5])

\* GameClient::receive_updates on the text recv_from returned; "" stands for the
\* read timeout (recv_from returns Err)
receive_updates(datagram) ==
    IF StartsWith(datagram, "ACK:")
    THEN /\ acked_messages' =
                IF ParseU32(From(datagram, 4)) # None
                THEN acked_messages \cup {ParseU32(From(datagram, 4))}
                ELSE acked_messages
         /\ peer_acked' = TRUE
         /\ cpc' = "poll"
         /\ UNCHANGED <<c_time_remaining, c_players, player_state, c_treasures, c_traps>>
    ELSE IF StartsWith(datagram, "GAME_STATE|")
    THEN /\ IF ParsePanics(datagram)
            THEN /\ cpc' = "panicked"
                 /\ UNCHANGED <<c_time_remaining, c_players, player_state,
                                c_treasures, c_traps>>
            ELSE /\ cpc' = "poll"
                 /\ parse_game_state(datagram)
         /\ UNCHANGED <<acked_messages, peer_acked>>
    ELSE /\ cpc' = "poll"
         /\ UNCHANGED <<acked_messages, peer_acked, c_time_remaining, c_players,
                        player_state, c_treasures, c_traps>>

\* run: `self.send_message("connect")?`
Connect ==
    /\ cpc = "connect"
    /\ \E sent \in BOOLEAN :
          /\ send_message("connect", sent)
          /\ cpc' = IF sent THEN "receive" ELSE "failed"
    /\ UNCHANGED <<acked_messages, peer_acked, c_time_remaining, c_players,
                   player_state, c_treasures, c_traps, response>>
    /\ UNCHANGED <<serverVars, loopVars>>

\* run: `self.receive_updates()?` at the head of the loop
Receive(Responses) ==
    /\ cpc = "receive"
    /\ \E r \in Responses :
          /\ receive_updates(r)
          /\ response' = r
    /\ UNCHANGED <<sequence_number, tx, send_result>>
    /\ UNCHANGED <<serverVars, loopVars>>

Keys == {"none", "q", "w", "a", "s", "d", "x"}

\* run: the direction sent for a w, a, s or d key
DirectionFor(key) ==
    CASE key = "w" -> "MOVE:W"
      [] key = "a" -> "MOVE:A"
      [] key = "s" -> "MOVE:S"
      [] key = "d" -> "MOVE:D"

\* run: event::poll, the match on the key, and display_game_state (which
\* changes no state)
Poll ==
    /\ cpc = "poll"
    /\ \E key \in Keys :
          IF key = "q"
          THEN /\ cpc' = "quit"
               /\ UNCHANGED <<sequence_number, tx, send_result>>
          ELSE IF key \in {"w", "a", "s", "d"}
          THEN /\ sequence_number < MaxSends
               /\ \E sent \in BOOLEAN : send_message(DirectionFor(key), sent)
               /\ cpc' = "receive"
          ELSE /\ cpc' = "receive"
               /\ UNCHANGED <<sequence_number, tx, send_result>>
    /\ UNCHANGED <<acked_messages, peer_acked, c_time_remaining, c_players,
                   player_state, c_treasures, c_traps, response>>
    /\ UNCHANGED <<serverVars, loopVars>>

-----------------------------------------------------------------------------
(* Datagrams the environment delivers to the server *)

Loopback(port) == <<"127.0.0.1", port>>

\* Three clients, a fourth sender, and a sender on another loopback address
\* that uses the port of the first client
Addrs ==
    {Loopback(8081), Loopback(8082), Loopback(8083), Loopback(8084),
     <<"127.0.0.2", 8081>>}

Messages ==
    { "1:connect", "connect", "x:connect",
      "0:MOVE:D", "1:MOVE:D", "2:MOVE:D", "1:MOVE:S", "2:MOVE:A",
      "2:MOVE:Q", "2:PING",
      "garbage", "x:MOVE:D", "4294967296:MOVE:D" }

Inputs == {[src |-> a, msg |-> m] : a \in Addrs, m \in Messages}

\* Two clients that play (the admission of three is exercised by Addrs)
GameAddrs == {Loopback(8081), Loopback(8082)}

GameMessages ==
    { "1:connect", "2:MOVE:W", "2:MOVE:A", "2:MOVE:S", "2:MOVE:D", "2:MOVE:Q" }

GameInputs == {[src |-> a, msg |-> m] : a \in GameAddrs, m \in GameMessages}

FairInputs ==
    {[src |-> Loopback(8081), msg |-> m] : m \in {"1:connect", "2:MOVE:D", "2:MOVE:S"}}

\* Datagrams that reach the client: the read timeout, acknowledgments, the
\* snapshots of three server states, a snapshot cut short, and other text
SampleWorlds ==
    { [time_remaining |-> 60, players |-> EmptyMap,
       treasures |-> << <<2, 3>>, <<5, 5>> >>, traps |-> << <<3, 3>>, <<6, 6>> >>],
      [time_remaining |-> 60,
       players |-> Insert(EmptyMap, 8081, [x |-> 2, y |-> 3, score |-> 10]),
       treasures |-> << <<5, 5>> >>, traps |-> << <<3, 3>>, <<6, 6>> >>],
      [time_remaining |-> 60,
       players |-> Insert(Insert(EmptyMap, 8081, [x |-> 3, y |-> 3, score |-> 0]),
                          8082, [x |-> 5, y |-> 5, score |-> 10]),
       treasures |-> <<>>, traps |-> << <<6, 6>> >>] }

\* The orders in which a HashMap with these keys may be iterated
Orders(keys) ==
    {order \in [1..Cardinality(keys) -> keys] :
        \A i, j \in DOMAIN order : i # j => order[i] # order[j]}

Responses ==
    {"", "ACK:1", "ACK:2", "ACK:connect", "hello",
     "GAME_STATE|TIME:60|P8081:(0, 0, 0)|"}
    \cup UNION {{game_state_text(w, order) : order \in Orders(DOMAIN w.players)} :
                   w \in SampleWorlds}

-----------------------------------------------------------------------------
(* Specifications *)

Init == ServerInit /\ ClientInit

Next ==
    \/ recv_from(Inputs, MaxDatagrams)
    \/ Dispatch(1)
    \/ broadcast_game_state
    \/ LoopAgain

Spec == Init /\ [][Next]_vars

GameNext ==
    \/ recv_from(GameInputs, MaxGameDatagrams)
    \/ Dispatch(0)
    \/ broadcast_game_state
    \/ LoopAgain

GameSpec == Init /\ [][GameNext]_vars

\* The server loop under fair scheduling, with one client that connects and
\* moves.  run is a `loop` without break: once recv_from has returned, the
\* handling, the broadcast and the back edge follow.  recv_from itself blocks
\* until a datagram arrives, so the server waits at pc = "recv" for as long as
\* none does.
FairNext ==
    \/ recv_from(FairInputs, MaxFairDatagrams)
    \/ Dispatch(0)
    \/ broadcast_game_state
    \/ LoopAgain

FairSpec ==
    /\ Init
    /\ [][FairNext]_vars
    /\ WF_vars(Dispatch(0))
    /\ WF_vars(broadcast_game_state)
    /\ WF_vars(LoopAgain)

ClientNext ==
    \/ Connect
    \/ Receive(Responses)
    \/ Poll

ClientSpec == Init /\ [][ClientNext]_vars

-----------------------------------------------------------------------------
(* Vocabulary of the properties.  After Dispatch (pc = "broadcast"), rx is  *)
(* the datagram handle_message has just handled, `before` the state it was *)
(* called in, and acks the datagrams it sent.                              *)

AfterHandle == pc = "broadcast"

IsConnect(d) == StrContains(d.msg, ":connect")

\* A well-formed sequenced command other than connect
Sequenced(d) == ~IsConnect(d) /\ parse_message(d.msg).some

SeqOf(d) == parse_message(d.msg).sequence

IsMove(d) == Sequenced(d) /\ StartsWith(parse_message(d.msg).content, "MOVE:")

DirectionOf(d) == From(parse_message(d.msg).content, 5)

\* The endpoint has a session in world w
HasSession(w, addr) ==
    Port(addr) \in DOMAIN w.clients /\ w.clients[Port(addr)].addr = addr

AckFor(d) == [to |-> d.src, data |-> "ACK:" \o ToString(SeqOf(d))]

\* d repeats or falls behind a sequence already acknowledged to its sender
Stale(d) ==
    \E e \in before.ackLog : e.src = d.src /\ SeqOf(d) <= SeqOf(e)

-----------------------------------------------------------------------------
(* Properties *)

\* C1: for a sender with a session, a sequenced command with sequence <=
\* last_sequence is rejected (no ACK, nothing changes), one with sequence >
\* last_sequence is accepted and becomes the session's last_sequence; a resend
\* of an acknowledged datagram is rejected.
C1_DedupFilter ==
    (AfterHandle /\ Sequenced(rx) /\ Port(rx.src) \in DOMAIN before.clients) =>
        LET port == Port(rx.src)
            last == before.clients[port].last_sequence
        IN  /\ SeqOf(rx) <= last =>
                  acks = <<>> /\ players = before.players
            /\ SeqOf(rx) > last =>
                  acks = <<AckFor(rx)>> /\ clients[port].last_sequence = SeqOf(rx)
            /\ rx \in before.ackLog => acks = <<>>

\* C2: handling again a MOVE datagram that was acknowledged before leaves the
\* players, the treasures, the traps and the timer as they were.
C2_ResendIdempotent ==
    (AfterHandle /\ IsMove(rx) /\ rx \in before.ackLog) =>
        /\ players = before.players
        /\ treasures = before.treasures
        /\ traps = before.traps
        /\ time_remaining = before.time_remaining

\* C3: an ACK is sent only for a sequenced command that is neither a repeat of
\* nor behind an acknowledged one, it is ACK:<sequence> to the sender, and
\* every such command with a sequence above 0 is acknowledged.
C3_AckExactlyAccepted ==
    (AfterHandle /\ ~IsConnect(rx)) =>
        /\ acks # <<>> =>
              Sequenced(rx) /\ ~Stale(rx) /\ acks = <<AckFor(rx)>>
        /\ (Sequenced(rx) /\ SeqOf(rx) > 0 /\ ~Stale(rx)) => acks # <<>>

\* The sequence number a client packet carries
PacketSeq(packet) == ParseU32(SubSeq(packet, 1, Find(packet, ":") - 1))

\* How many datagrams the client has sent with sequence number seq
Transmissions(seq) ==
    Cardinality({i \in 1..Len(tx) : PacketSeq(tx[i]) = seq})

\* The last send_message call has returned after putting its packet on the wire
SendReturned ==
    /\ Len(tx) > 0
    /\ PacketSeq(tx[Len(tx)]) = sequence_number

\* C4: when no acknowledgment has arrived, a send call that has returned has
\* transmitted its datagram exactly 3 times (all with its one sequence
\* number) and has reported failure.
C4_BoundedRetry ==
    (SendReturned /\ ~peer_acked) =>
        /\ Transmissions(sequence_number) = 3
        /\ send_result = "SendTimeout"

\* C5: at most one packet the client has sent is unacknowledged.
C5_SingleOutstanding ==
    Cardinality({i \in 1..Len(tx) : PacketSeq(tx[i]) \notin acked_messages}) <= 1

\* A connect from an endpoint without a session arrived with 3 players admitted
FourthConnect ==
    /\ AfterHandle
    /\ IsConnect(rx)
    /\ Cardinality(DOMAIN before.players) = 3
    /\ ~HasSession(before, rx.src)

\* C6: there are never more than 3 sessions or 3 PlayerStates; a connect
\* from a new endpoint with 3 players admitted gets no acknowledgment and
\* changes neither the sessions nor the players.
C6_AdmissionCap ==
    /\ Cardinality(DOMAIN clients) <= 3
    /\ Cardinality(DOMAIN players) <= 3
    /\ FourthConnect =>
          acks = <<>> /\ clients = before.clients /\ players = before.players

C6_Witness ==
    /\ FourthConnect
    /\ Port(rx.src) \notin DOMAIN before.clients
    /\ acks = <<>>
    /\ Cardinality(DOMAIN players) = 3

\* C7: a connect from an endpoint that has a session creates no PlayerState
\* and leaves the endpoint's PlayerState and session as they were.
C7_AdmitIdempotent ==
    (AfterHandle /\ IsConnect(rx) /\ HasSession(before, rx.src)) =>
        /\ DOMAIN players = DOMAIN before.players
        /\ players[Port(rx.src)] = before.players[Port(rx.src)]
        /\ clients[Port(rx.src)] = before.clients[Port(rx.src)]

\* C8: every player is inside the 10x10 grid.
C8_GridBounds ==
    \A p \in DOMAIN players :
        /\ 0 <= players[p].x /\ players[p].x <= 10 - 1
        /\ 0 <= players[p].y /\ players[p].y <= 10 - 1

\* A MOVE with direction dir from the port of an admitted player was handled
MoveHandled(p, dir) ==
    /\ AfterHandle
    /\ IsMove(rx)
    /\ Port(rx.src) = p
    /\ p \in DOMAIN before.players
    /\ DirectionOf(rx) = dir

\* a player at the right edge (x = 9) applied D and stayed
C8_Witness ==
    \E p \in DOMAIN players :
        /\ MoveHandled(p, "D")
        /\ before.players[p].x = 9
        /\ players[p].x = 9

\* The position rule of applyMove
Delta(dir) ==
    CASE dir = "W" -> <<0, -1>>
      [] dir = "A" -> <<-1, 0>>
      [] dir = "S" -> <<0, 1>>
      [] dir = "D" -> <<1, 0>>

RulePosition(old, dir) ==
    LET nx == old.x + Delta(dir)[1]
        ny == old.y + Delta(dir)[2]
    IN  IF nx \in 0..9 /\ ny \in 0..9 THEN <<nx, ny>> ELSE <<old.x, old.y>>

\* C9: W, A, S, D move an admitted player by (0,-1), (-1,0), (0,+1), (+1,0),
\* except that a move that would leave the grid leaves the position as it was.
C9_MoveRule ==
    (AfterHandle /\ IsMove(rx) /\ Port(rx.src) \in DOMAIN before.players) =>
        LET p == Port(rx.src) IN
        \A dir \in {"W", "A", "S", "D"} :
            DirectionOf(rx) = dir =>
                <<players[p].x, players[p].y>> = RulePosition(before.players[p], dir)

\* a player at (0, y), y > 0, applied A and stayed
C9_Witness ==
    \E p \in DOMAIN players :
        /\ MoveHandled(p, "A")
        /\ before.players[p].x = 0
        /\ before.players[p].y > 0
        /\ players[p].x = 0
        /\ players[p].y = before.players[p].y

InitialTreasures == << <<2, 3>>, <<5, 5>> >>

\* C10: a move onto a treasure cell adds exactly 10 to the mover's score and
\* removes the cell; no cell enters the treasure set; a move onto any other
\* cell gains nothing.
C10_TreasureOnce ==
    /\ \A i \in 1..Len(treasures) : Contains(InitialTreasures, treasures[i])
    /\ AfterHandle =>
          \A i \in 1..Len(treasures) : Contains(before.treasures, treasures[i])
    /\ (AfterHandle /\ IsMove(rx) /\ Port(rx.src) \in DOMAIN before.players) =>
          LET p == Port(rx.src)
              cell == <<players[p].x, players[p].y>>
          IN  IF Contains(before.treasures, cell)
              THEN /\ players[p].score = before.players[p].score + 10
                   /\ ~Contains(treasures, cell)
              ELSE players[p].score <= before.players[p].score

\* a second player moves onto (2,3) after another player collected it
C10_Witness ==
    \E p, q \in DOMAIN players :
        /\ p # q
        /\ MoveHandled(p, "S")
        /\ <<before.players[p].x, before.players[p].y>> = <<2, 2>>
        /\ <<players[p].x, players[p].y>> = <<2, 3>>
        /\ ~Contains(before.treasures, <<2, 3>>)
        /\ players[q].score = 10
        /\ players[p].score = 0

InitialTraps == << <<3, 3>>, <<6, 6>> >>

\* C11: a move onto a trap cell sets the mover's score to 0 and removes the
\* cell; no cell enters the trap set; a move onto a cell that is not (or no
\* longer) a trap does not lower the score.
C11_TrapOnce ==
    /\ \A i \in 1..Len(traps) : Contains(InitialTraps, traps[i])
    /\ AfterHandle =>
          \A i \in 1..Len(traps) : Contains(before.traps, traps[i])
    /\ (AfterHandle /\ IsMove(rx) /\ Port(rx.src) \in DOMAIN before.players) =>
          LET p == Port(rx.src)
              cell == <<players[p].x, players[p].y>>
          IN  IF Contains(before.traps, cell)
              THEN /\ players[p].score = 0
                   /\ ~Contains(traps, cell)
              ELSE players[p].score >= before.players[p].score

\* a player holding 10 points moves onto (3,3) after the trap there was
\* triggered, and keeps the points
C11_Witness ==
    \E p \in DOMAIN players :
        /\ MoveHandled(p, "D")
        /\ <<before.players[p].x, before.players[p].y>> = <<2, 3>>
        /\ <<players[p].x, players[p].y>> = <<3, 3>>
        /\ ~Contains(before.traps, <<3, 3>>)
        /\ before.players[p].score = 10
        /\ players[p].score = 10

\* The endpoints of the session table
SessionEndpoints == {clients[p].addr : p \in DOMAIN clients}

\* C12: the step after handle_message, whatever the datagram was, sends
\* exactly one snapshot of the world as handle_message left it to the endpoint
\* of every session and to no other endpoint, and only after that step does
\* the server receive again.
C12_BroadcastPerDatagram ==
    [][/\ pc = "broadcast" =>
             /\ pc' = "loop"
             /\ serverVars' = serverVars
             /\ {b.to : b \in bcast'} = SessionEndpoints
             /\ Cardinality(bcast') = Cardinality(DOMAIN clients)
             /\ \A b \in bcast' :
                    b.data = [time_remaining |-> time_remaining, players |-> players,
                              treasures |-> treasures, traps |-> traps]
       /\ pc' = "recv" => pc = "loop"
       /\ pc' = "handle" => pc = "recv" /\ bcast = {}]_vars

\* a datagram without envelope was handled with two sessions in the table, and
\* both endpoints were sent the snapshot
C12_Witness ==
    /\ pc = "loop"
    /\ rx.msg = "garbage"
    /\ acks = <<>>
    /\ Cardinality(DOMAIN clients) = 2
    /\ {b.to : b \in bcast} = SessionEndpoints
    /\ Cardinality(bcast) = 2

\* The envelope of d is malformed: there is no ':' or the text before the
\* first ':' is not a numeral
Malformed(d) ==
    LET colon == Find(d.msg, ":")
        field == SubSeq(d.msg, 1, colon - 1)
    IN  \/ colon = 0
        \/ Len(field) = 0
        \/ \E i \in 1..Len(field) : Char(field, i) \notin Digits

\* C13: a datagram with a malformed envelope gets no ACK and leaves the
\* sessions, the players, the treasures, the traps and the timer as they were.
C13_MalformedDropped ==
    (AfterHandle /\ Malformed(rx)) =>
        /\ acks = <<>>
        /\ clients = before.clients
        /\ players = before.players
        /\ treasures = before.treasures
        /\ traps = before.traps
        /\ time_remaining = before.time_remaining

\* C14: a sequenced connect that is admitted is answered with ACK:<its
\* sequence number>, the text from which receive_updates reads that number
\* (`response[4..].parse::<u32>()`) to insert it into acked_messages.
C14_ConnectAck ==
    (AfterHandle /\ IsConnect(rx) /\ parse_message(rx.msg).some
        /\ Port(rx.src) \in DOMAIN clients /\ clients[Port(rx.src)].addr = rx.src
        /\ Cardinality(DOMAIN before.clients) < 3) =>
        /\ acks = <<AckFor(rx)>>
        /\ ParseU32(From(acks[1].data, 4)) = SeqOf(rx)

\* C15: after the client has read the snapshot text the server encodes for a
\* world (in any iteration order of its players), the client's time remaining,
\* players, treasures and traps are those of the world.
C15_RoundTrip ==
    \A w \in SampleWorlds : \A order \in Orders(DOMAIN w.players) :
        response = game_state_text(w, order) =>
            /\ cpc # "panicked"
            /\ c_time_remaining = w.time_remaining
            /\ c_players = w.players
            /\ c_treasures = w.treasures
            /\ c_traps = w.traps

\* C16: the countdown runs: the time remaining, 60 at the start, is
\* decremented by the server's ticks and so falls below 60, whether or not
\* datagrams arrive.
C16_Countdown == <>(time_remaining < 60)

\* C17: no player stands on a cell of the treasure list or of the trap list.
C17_CollectOnOccupy ==
    \A p \in DOMAIN players :
        /\ ~Contains(treasures, <<players[p].x, players[p].y>>)
        /\ ~Contains(traps, <<players[p].x, players[p].y>>)

\* a player stands on the former trap cell (3,3) after crossing the former
\* treasure cell (2,3), and both cells have left their lists
C17_Witness ==
    \E p \in DOMAIN players :
        /\ <<players[p].x, players[p].y>> = <<3, 3>>
        /\ treasures = << <<5, 5>> >>
        /\ traps = << <<6, 6>> >>

\* C18: the keys of the session table are the keys of the players map, and
\* a broadcast goes to one endpoint for each player of the snapshot it carries.
C18_SessionsArePlayers ==
    /\ DOMAIN clients = DOMAIN players
    /\ pc = "loop" =>
          /\ Cardinality(bcast) = Cardinality(DOMAIN players)
          /\ \A b \in bcast : \A p \in DOMAIN b.data.players :
                 \E c \in bcast : c.to = clients[p].addr

\* three players were admitted and a fourth connect was refused; the
\* snapshot of three players went to three endpoints
C18_Witness ==
    /\ pc = "loop"
    /\ IsConnect(rx)
    /\ acks = <<>>
    /\ Port(rx.src) \notin DOMAIN clients
    /\ DOMAIN players = {8081, 8082, 8083}
    /\ Cardinality(bcast) = 3

\* C19: a MOVE datagram leaves the session table, the timer and the set of
\* players as they were and changes no PlayerState other than that of the
\* player admitted for its sender; from a sender without a session it changes
\* nothing at all.
C19_MoveFrame ==
    (AfterHandle /\ IsMove(rx)) =>
        /\ clients = before.clients
        /\ time_remaining = before.time_remaining
        /\ DOMAIN players = DOMAIN before.players
        /\ \A q \in DOMAIN before.players :
              (q # Port(rx.src) \/ ~HasSession(before, rx.src)) =>
                  players[q] = before.players[q]
        /\ ~HasSession(before, rx.src) =>
              /\ players = before.players
              /\ treasures = before.treasures
              /\ traps = before.traps

RECURSIVE SumScores(_, _)
\* The sum of the scores of the players ps with keys in ids
SumScores(ps, ids) ==
    IF ids = {} THEN 0
    ELSE LET id == CHOOSE i \in ids : TRUE IN
         ps[id].score + SumScores(ps, ids \ {id})

\* C20: every score is a non-negative multiple of 10, and the scores sum to
\* at most 10 times the number of treasures that have left the list.
C20_ScoreConservation ==
    /\ \A p \in DOMAIN players :
          players[p].score >= 0 /\ players[p].score % 10 = 0
    /\ SumScores(players, DOMAIN players)
          <= 10 * (Len(InitialTreasures) - Len(treasures))

\* one player holds the 10 points of (2,3) and another, at (3,0), holds none
C20_Witness ==
    \E p, q \in DOMAIN players :
        /\ players[p].score = 10
        /\ <<players[q].x, players[q].y>> = <<3, 0>>
        /\ players[q].score = 0
        /\ Len(treasures) = 1
        /\ SumScores(players, DOMAIN players) = 10

====
